---- MODULE Spec2Model ----
(***************************************************************************)
(* A model of presentations.py: the word functions on integer lists        *)
(* (rotation, inversion, shortLex comparison, odometer and shortLex        *)
(* successors, non-decreasing partitions) and drivers that call them the   *)
(* way main() does.  Python lists are sequences; Python's 0-based indices  *)
(* and slices are kept through the helpers index, at, sliceFrom, sliceTo.  *)
(***************************************************************************)
EXTENDS Integers, Sequences, FiniteSets

VARIABLES alphabet, list0, list1, list2, k, n, pc, result, history

vars == <<alphabet, list0, list1, list2, k, n, pc, result, history>>

(***************************************************************************)
(* Bounds of the model.                                                    *)
(***************************************************************************)
MaxShiftLen == 4
MaxShift == 6
MaxOrderLen == 2
MaxCanonLen == 6
MaxSuccLen == 3
MaxOdoLen == 3
MaxGenerators == 4
MaxTotal == 5

(***************************************************************************)
(* Python list primitives.                                                 *)
(***************************************************************************)
Min(a, b) == IF a < b THEN a ELSE b
Max(a, b) == IF a > b THEN a ELSE b

\* The bound a slice clamps n to: n counts from the end when negative.
sliceBound(list, i) ==
    IF i >= 0 THEN Min(i, Len(list)) ELSE Max(Len(list) + i, 0)

\* list[i:]
sliceFrom(list, i) == SubSeq(list, sliceBound(list, i) + 1, Len(list))

\* list[:i]
sliceTo(list, i) == SubSeq(list, 1, sliceBound(list, i))

\* list.index(x), 0-based: the first position holding x.
index(list, x) ==
    (CHOOSE i \in 1..Len(list) :
        /\ list[i] = x
        /\ \A j \in 1..(i - 1) : list[j] # x) - 1

\* list[-1]
last(list) == list[Len(list)]

\* list[i], 0-based, 0 <= i.
at(list, i) == list[i + 1]

(***************************************************************************)
(* The functions on lists.                                                 *)
(***************************************************************************)
RECURSIVE standardAlphabetUpTo(_)
standardAlphabetUpTo(i) ==
    IF i = 0 THEN <<>> ELSE standardAlphabetUpTo(i - 1) \o <<i, -i>>

standardAlphabet(m) == standardAlphabetUpTo(m)

cyclicShiftLeft_RotatesRight(list, i) == sliceFrom(list, -i) \o sliceTo(list, -i)

cyclicShiftLeft(list, i) == sliceFrom(list, i) \o sliceTo(list, i)

\* The loop of cyclicShifts from index i on, with the shifts gathered so far.
RECURSIVE cyclicShiftsFrom(_, _, _)
cyclicShiftsFrom(list, i, shifts) ==
    IF i >= Len(list) THEN shifts
    ELSE IF cyclicShiftLeft(list, i) = list THEN shifts
    ELSE cyclicShiftsFrom(list, i + 1, Append(shifts, cyclicShiftLeft(list, i)))

RECURSIVE cyclicShiftsNoBreakFrom(_, _, _)
cyclicShiftsNoBreakFrom(list, i, shifts) ==
    IF i >= Len(list) THEN shifts
    ELSE cyclicShiftsNoBreakFrom(list, i + 1, Append(shifts, cyclicShiftLeft(list, i)))

cyclicShifts_NoBreak(list) == cyclicShiftsNoBreakFrom(list, 1, <<list>>)

cyclicShifts(list) == cyclicShiftsFrom(list, 1, <<list>>)

inverse(list) == [i \in 1..Len(list) |-> -list[Len(list) - i + 1]]

RECURSIVE inverseCyclicShiftsOf(_)
inverseCyclicShiftsOf(shifts) ==
    IF shifts = <<>> THEN <<>>
    ELSE <<Head(shifts), inverse(Head(shifts))>> \o inverseCyclicShiftsOf(Tail(shifts))

inverseCyclicShifts_NoInverse(list) == cyclicShifts(list) \o cyclicShifts(list)

inverseCyclicShifts(list) == inverseCyclicShiftsOf(cyclicShifts(list))

RECURSIVE shortLexPrecedes(_, _, _)
shortLexPrecedes_EmptyFirst(l0, l1, alph) ==
    IF l0 = <<>> THEN TRUE
    ELSE IF l1 = <<>> THEN FALSE
    ELSE IF l0[1] # l1[1] THEN index(alph, l0[1]) < index(alph, l1[1])
    ELSE shortLexPrecedes(sliceFrom(l0, 1), sliceFrom(l1, 1), alph)

shortLexPrecedes(l0, l1, alph) ==
    IF l1 = <<>> THEN FALSE
    ELSE IF l0 = <<>> THEN TRUE
    ELSE IF l0[1] # l1[1] THEN index(alph, l0[1]) < index(alph, l1[1])
    ELSE shortLexPrecedes(sliceFrom(l0, 1), sliceFrom(l1, 1), alph)

\* The loop of isCyclicInverselyMinimal over the shifts still to be compared.
RECURSIVE noneShortLexPrecedes(_, _, _)
noneShortLexPrecedes(shifts, list, alph) ==
    IF shifts = <<>> THEN TRUE
    ELSE IF shortLexPrecedes(Head(shifts), list, alph) THEN FALSE
    ELSE noneShortLexPrecedes(Tail(shifts), list, alph)

isCyclicInverselyMinimal_ShiftsOnly(list, alph) ==
    noneShortLexPrecedes(cyclicShifts(list), list, alph)

isCyclicInverselyMinimal(list, alph) ==
    noneShortLexPrecedes(inverseCyclicShifts(list), list, alph)

RECURSIVE odometerSuccessor(_, _)
odometerSuccessor_NoCarry(list, alph) ==
    IF list = <<>> THEN <<>>
    ELSE IF last(list) # last(alph)
    THEN sliceTo(list, Len(list) - 1) \o <<at(alph, index(alph, last(list)) + 1)>>
    ELSE sliceTo(list, Len(list) - 1) \o <<at(alph, 0)>>

odometerSuccessor(list, alph) ==
    IF list = <<>> THEN <<>>
    ELSE IF last(list) # last(alph)
    THEN sliceTo(list, Len(list) - 1) \o <<at(alph, index(alph, last(list)) + 1)>>
    ELSE odometerSuccessor(sliceTo(list, Len(list) - 1), alph) \o <<at(alph, 0)>>

\* The flag the loop of shortLexSuccessor computes.
isAllLastLetter(list, alph) == \A i \in 1..Len(list) : list[i] = last(alph)

shortLexSuccessor_NeverGrows(list, alph) ==
    IF list = <<>> THEN <<at(alph, 0)>>
    ELSE odometerSuccessor(list, alph)

shortLexSuccessor(list, alph) ==
    IF list = <<>> THEN <<at(alph, 0)>>
    ELSE IF isAllLastLetter(list, alph)
    THEN <<at(alph, 0)>> \o odometerSuccessor(list, alph)
    ELSE odometerSuccessor(list, alph)

\* [k] + smallerPartition for each smallerPartition of partitions.
prependEach(m, partitions) ==
    [j \in 1..Len(partitions) |-> <<m>> \o partitions[j]]

\* The loop of nondecreasingPartitionsStartingWith: for i in range(i, stop).
RECURSIVE nondecreasingPartitionsStartingWith(_, _)
RECURSIVE startingWithLoop(_, _, _, _)
startingWithLoop(m, total, i, stop) ==
    IF i >= stop THEN <<>>
    ELSE prependEach(m, nondecreasingPartitionsStartingWith(i, total - m))
             \o startingWithLoop(m, total, i + 1, stop)

nondecreasingPartitionsStartingWith_RangeOffByOne(m, total) ==
    IF m = total THEN <<<<total>>>>
    ELSE IF m < total THEN startingWithLoop(m, total, m, total - m)
    ELSE <<>>

nondecreasingPartitionsStartingWith(m, total) ==
    IF m = total THEN <<<<total>>>>
    ELSE IF m < total THEN startingWithLoop(m, total, m, total - m + 1)
    ELSE <<>>

\* The loop of nondecreasingPartitions: for i in range(i, total + 1).
RECURSIVE partitionsLoop(_, _)
partitionsLoop(i, total) ==
    IF i >= total + 1 THEN <<>>
    ELSE nondecreasingPartitionsStartingWith(i, total) \o partitionsLoop(i + 1, total)

nondecreasingPartitions(total) == partitionsLoop(1, total)

\* Python's None, what a function whose body is pass returns.
None == "None"

stupidEnumeratePresentations(m, total) == None

(***************************************************************************)
(* Words and rotations as the claims speak of them.                        *)
(***************************************************************************)
Range(s) == {s[i] : i \in 1..Len(s)}

Words(S, maxLen) == UNION {[1..m -> S] : m \in 0..maxLen}

NoDuplicates(s) == \A i, j \in 1..Len(s) : i # j => s[i] # s[j]

\* w rotated left by i positions, 0 <= i.
Rot(w, i) == [j \in 1..Len(w) |-> w[((j - 1 + i) % Len(w)) + 1]]

Rotations(w) == IF w = <<>> THEN {<<>>} ELSE {Rot(w, i) : i \in 0..(Len(w) - 1)}

\* The least positive rotation amount that reproduces w.
Period(w) ==
    IF w = <<>> THEN 1
    ELSE CHOOSE p \in 1..Len(w) :
        /\ Rot(w, p) = w
        /\ \A q \in 1..(p - 1) : Rot(w, q) # w

CyclicInverseClass(w) == Rotations(w) \cup {inverse(v) : v \in Rotations(w)}

\* The number of positions of w holding x.
Count(w, x) == Cardinality({i \in 1..Len(w) : w[i] = x})

SameSymbols(v, w) == \A x \in Range(v) \cup Range(w) : Count(v, x) = Count(w, x)

ShiftSymbols == Range(standardAlphabet(2))

(***************************************************************************)
(* The rotation driver: main() lines 301-324 call cyclicShiftLeft,         *)
(* cyclicShifts and inverseCyclicShifts on a list.                         *)
(***************************************************************************)
InitShift ==
    /\ list0 \in Words(ShiftSymbols, MaxShiftLen)
    /\ n \in (-MaxShift)..MaxShift
    /\ alphabet = <<>>
    /\ list1 = <<>>
    /\ list2 = <<>>
    /\ k = 0
    /\ pc = "start"
    /\ result = <<>>
    /\ history = <<>>

CallCyclicShiftLeft ==
    /\ pc = "start"
    /\ result' = cyclicShiftLeft(list0, n)
    /\ pc' = "cyclicShiftLeft"
    /\ UNCHANGED <<alphabet, list0, list1, list2, k, n, history>>

CallCyclicShifts ==
    /\ pc = "start"
    /\ result' = cyclicShifts(list0)
    /\ pc' = "cyclicShifts"
    /\ UNCHANGED <<alphabet, list0, list1, list2, k, n, history>>

CallInverseCyclicShifts ==
    /\ pc = "start"
    /\ result' = inverseCyclicShifts(list0)
    /\ pc' = "inverseCyclicShifts"
    /\ UNCHANGED <<alphabet, list0, list1, list2, k, n, history>>

NextShift == CallCyclicShiftLeft \/ CallCyclicShifts \/ CallInverseCyclicShifts

SpecShift == InitShift /\ [][NextShift]_vars

(***************************************************************************)
(* C10 as stated: for every non-empty word w and every integer n,          *)
(* cyclicShiftLeft(w, n) is w rotated left by n mod len(w), so amounts     *)
(* beyond len(w) wrap around, and the result has w's length and symbols.   *)
(***************************************************************************)
C10_AsStated ==
    (pc = "cyclicShiftLeft" /\ list0 # <<>>) =>
        /\ result = Rot(list0, n % Len(list0))
        /\ Len(result) = Len(list0)
        /\ SameSymbols(result, list0)

(***************************************************************************)
(* C10 amended: for every non-empty word w, cyclicShiftLeft(w, n) is w     *)
(* rotated left by n mod len(w) when |n| <= len(w) (right by |n| for a     *)
(* negative n, unchanged for n = len(w)), and is w unchanged when          *)
(* |n| > len(w): the slices clamp, they do not wrap.  The result always    *)
(* has w's length and w's multiset of symbols.                             *)
(***************************************************************************)
C10_CyclicShiftLeft ==
    (pc = "cyclicShiftLeft" /\ list0 # <<>>) =>
        /\ (n >= -Len(list0) /\ n <= Len(list0)) => result = Rot(list0, n % Len(list0))
        /\ (n < -Len(list0) \/ n > Len(list0)) => result = list0
        /\ Len(result) = Len(list0)
        /\ SameSymbols(result, list0)

C10_Witness ==
    /\ pc = "cyclicShiftLeft"
    /\ Len(list0) = 3
    /\ n = -1
    /\ result = <<list0[3], list0[1], list0[2]>>
    /\ result # list0

(***************************************************************************)
(* C9: cyclicShifts(w) lists the left-rotations of w by 0, 1, ..., p-1,    *)
(* p the least positive rotation amount that reproduces w: it starts with  *)
(* w, its entries are pairwise distinct and include every rotation of w,   *)
(* and for a non-empty w its length divides len(w) and equals len(w) when  *)
(* no nontrivial rotation of w equals w.                                   *)
(***************************************************************************)
C9_CyclicShifts ==
    pc = "cyclicShifts" =>
        /\ Len(result) = Period(list0)
        /\ \A i \in 1..Len(result) : result[i] = Rot(list0, i - 1)
        /\ result[1] = list0
        /\ NoDuplicates(result)
        /\ Range(result) = Rotations(list0)
        /\ Len(list0) > 0 => Len(list0) % Len(result) = 0
        /\ (\A i \in 1..(Len(list0) - 1) : Rot(list0, i) # list0) =>
               Len(result) = Max(Len(list0), 1)

C9_Witness ==
    /\ pc = "cyclicShifts"
    /\ Len(list0) = 4
    /\ Len(result) = 2

(***************************************************************************)
(* C8 as stated: inverseCyclicShifts(w) holds exactly the members of w's   *)
(* cyclic-inverse class, no word listed twice, so at most 2*len(w)         *)
(* entries and fewer for periodic words.  Stated here of the non-empty     *)
(* words (the empty word gives [[], []], the same word twice, as well).    *)
(***************************************************************************)
C8_AsStated ==
    (pc = "inverseCyclicShifts" /\ list0 # <<>>) =>
        /\ Range(result) = CyclicInverseClass(list0)
        /\ NoDuplicates(result)
        /\ Len(result) <= 2 * Len(list0)
        /\ Period(list0) < Len(list0) => Len(result) < 2 * Len(list0)

(***************************************************************************)
(* C8 amended: the entries of inverseCyclicShifts(w) are exactly the       *)
(* members of w's cyclic-inverse class; the list holds each of the p       *)
(* distinct rotations followed by its inverse, 2*p entries, p the least    *)
(* period of w, so at most 2*len(w) entries for a non-empty w and fewer    *)
(* for periodic words; a word is listed twice when a rotation of w is the  *)
(* inverse of a rotation of w.                                             *)
(***************************************************************************)
C8_InverseCyclicShifts ==
    pc = "inverseCyclicShifts" =>
        /\ Range(result) = CyclicInverseClass(list0)
        /\ Len(result) = 2 * Period(list0)
        /\ \A i \in 1..Period(list0) :
               /\ result[2 * i - 1] = Rot(list0, i - 1)
               /\ result[2 * i] = inverse(Rot(list0, i - 1))
        /\ Len(list0) > 0 => Len(result) <= 2 * Len(list0)
        /\ Period(list0) < Len(list0) => Len(result) < 2 * Len(list0)
        /\ NoDuplicates(result) <=>
               (\A v \in Rotations(list0) : inverse(v) \notin Rotations(list0))

C8_Witness ==
    /\ pc = "inverseCyclicShifts"
    /\ list0 = <<1, 2, -1>>
    /\ Len(result) = 6
    /\ NoDuplicates(result)

(***************************************************************************)
(* The comparison driver: main() lines 331-339 call shortLexPrecedes on    *)
(* pairs of words over one alphabet.  Here three words are drawn and every *)
(* ordered pair of them is compared; result[i][j] is the answer for the    *)
(* i-th and the j-th word.                                                 *)
(***************************************************************************)
OrderAlphabets == {standardAlphabet(1), standardAlphabet(2)}

InitOrder ==
    /\ alphabet \in OrderAlphabets
    /\ list0 \in Words(Range(alphabet), MaxOrderLen)
    /\ list1 \in Words(Range(alphabet), MaxOrderLen)
    /\ list2 \in Words(Range(alphabet), MaxOrderLen)
    /\ k = 0
    /\ n = 0
    /\ pc = "start"
    /\ result = <<>>
    /\ history = <<>>

CallShortLexPrecedes ==
    /\ pc = "start"
    /\ result' = LET lists == <<list0, list1, list2>>
                 IN  [i \in 1..3 |->
                         [j \in 1..3 |-> shortLexPrecedes(lists[i], lists[j], alphabet)]]
    /\ pc' = "shortLexPrecedes"
    /\ UNCHANGED <<alphabet, list0, list1, list2, k, n, history>>

NextOrder == CallShortLexPrecedes

SpecOrder == InitOrder /\ [][NextOrder]_vars

\* w0 strictly before w1 in shortlex order: shorter, or of equal length and
\* smaller by alphabet index at the first position where they differ.
ShortLexLess(w0, w1, alph) ==
    \/ Len(w0) < Len(w1)
    \/ /\ Len(w0) = Len(w1)
       /\ \E i \in 1..Len(w0) :
              /\ \A j \in 1..(i - 1) : w0[j] = w1[j]
              /\ w0[i] # w1[i]
              /\ index(alph, w0[i]) < index(alph, w1[i])

(***************************************************************************)
(* C2: shortLexPrecedes(w0, w1, alphabet) is True if and only if w0        *)
(* strictly precedes w1 in shortlex order: len(w0) < len(w1), or equal     *)
(* lengths and the smaller alphabet index at the first difference.         *)
(***************************************************************************)
C2_ShortLexPrecedes ==
    pc = "shortLexPrecedes" =>
        (result[1][2] <=> ShortLexLess(list0, list1, alphabet))

(***************************************************************************)
(* C6: over the words of one alphabet shortLexPrecedes is a strict total   *)
(* order: never precedes(a, a); precedes(a, b) and precedes(b, c) imply    *)
(* precedes(a, c); for two different words exactly one of precedes(a, b),  *)
(* precedes(b, a); and the empty word precedes every non-empty word.       *)
(***************************************************************************)
C6_StrictTotalOrder ==
    pc = "shortLexPrecedes" =>
        LET lists == <<list0, list1, list2>>
        IN  /\ \A i, j \in 1..3 : lists[i] = lists[j] => ~result[i][j]
            /\ \A i, j, m \in 1..3 :
                   (result[i][j] /\ result[j][m]) => result[i][m]
            /\ \A i, j \in 1..3 :
                   lists[i] # lists[j] => (result[i][j] <=> ~result[j][i])
            /\ \A i, j \in 1..3 :
                   (lists[i] = <<>> /\ lists[j] # <<>>) => result[i][j]

C6_Witness ==
    /\ pc = "shortLexPrecedes"
    /\ list0 # list1 /\ list1 # list2 /\ list0 # list2
    /\ Len(list0) = 2 /\ Len(list1) = 2 /\ list2 # <<>>
    /\ list0[1] = list1[1]
    /\ result[1][2] /\ result[2][3] /\ result[1][3]
    /\ ~result[2][1] /\ ~result[3][2] /\ ~result[3][1]

(***************************************************************************)
(* The canonical-form driver: main() lines 341-348 call                    *)
(* isCyclicInverselyMinimal on words over standardAlphabet(2).  Here it is *)
(* called on every entry of inverseCyclicShifts(list0): history holds the  *)
(* entries and result[i] the answer for the i-th entry.                    *)
(***************************************************************************)
InitCanon ==
    /\ alphabet = standardAlphabet(2)
    /\ list0 \in Words(Range(alphabet), MaxCanonLen)
    /\ list1 = <<>>
    /\ list2 = <<>>
    /\ k = 0
    /\ n = 0
    /\ pc = "start"
    /\ result = <<>>
    /\ history = <<>>

CallIsCyclicInverselyMinimal ==
    /\ pc = "start"
    /\ history' = inverseCyclicShifts(list0)
    /\ result' = [i \in 1..Len(history') |->
                      isCyclicInverselyMinimal(history'[i], alphabet)]
    /\ pc' = "isCyclicInverselyMinimal"
    /\ UNCHANGED <<alphabet, list0, list1, list2, k, n>>

NextCanon == CallIsCyclicInverselyMinimal

SpecCanon == InitCanon /\ [][NextCanon]_vars

\* The distinct words among the entries that isCyclicInverselyMinimal accepts.
Accepted == {history[i] : i \in {j \in 1..Len(history) : result[j]}}

(***************************************************************************)
(* C1: for every word w of length at most 6 over [1,-1,2,-2], exactly one  *)
(* distinct word among the entries of inverseCyclicShifts(w) is accepted   *)
(* by isCyclicInverselyMinimal: each cyclic-inverse class has one          *)
(* canonical representative.                                               *)
(***************************************************************************)
C1_UniqueCanonicalForm ==
    pc = "isCyclicInverselyMinimal" => Cardinality(Accepted) = 1

C1_Witness ==
    /\ pc = "isCyclicInverselyMinimal"
    /\ Len(list0) = 6
    /\ Len(history) = 12
    /\ NoDuplicates(history)
    /\ Accepted = {<<1, 1, 2, 1, -2, -2>>}
    /\ list0 \notin Accepted

(***************************************************************************)
(* The enumeration drivers: main() lines 350-360 iterate odometerSuccessor *)
(* from a constant word and shortLexSuccessor from the empty word, over    *)
(* one alphabet.  list0 is the current word and history the words printed  *)
(* so far, the current one last.                                           *)
(***************************************************************************)
SuccAlphabets ==
    {<<1>>, <<0, 1>>, standardAlphabet(1), <<1, -1, 2>>, standardAlphabet(2)}

InitSucc ==
    /\ alphabet \in SuccAlphabets
    /\ list0 = <<>>
    /\ history = <<list0>>
    /\ list1 = <<>>
    /\ list2 = <<>>
    /\ k = 0
    /\ n = 0
    /\ pc = "shortLexSuccessor"
    /\ result = <<>>

\* One turn of the loop; the model stops once a word longer than MaxSuccLen is out.
CallShortLexSuccessor ==
    /\ pc = "shortLexSuccessor"
    /\ Len(list0) <= MaxSuccLen
    /\ list0' = shortLexSuccessor(list0, alphabet)
    /\ history' = Append(history, list0')
    /\ UNCHANGED <<alphabet, list1, list2, k, n, pc, result>>

NextSucc == CallShortLexSuccessor

SpecSucc == InitSucc /\ [][NextSucc]_vars

(***************************************************************************)
(* C3: iterating shortLexSuccessor from the empty word produces every word *)
(* over the alphabet exactly once, each strictly greater in shortlex order *)
(* than the word before it; over [1,-1] the first six words are [], [1],   *)
(* [-1], [1,1], [1,-1], [-1,1].  Within the bound: the words produced so   *)
(* far are pairwise distinct, increasing, and are exactly the words that   *)
(* are not after the current one in shortlex order.                        *)
(***************************************************************************)
C3_ShortLexEnumeration ==
    pc = "shortLexSuccessor" =>
        /\ history[1] = <<>>
        /\ last(history) = list0
        /\ NoDuplicates(history)
        /\ \A i \in 1..(Len(history) - 1) :
               ShortLexLess(history[i], history[i + 1], alphabet)
        /\ \A v \in Words(Range(alphabet), Len(list0)) :
               v \in Range(history) <=> (v = list0 \/ ShortLexLess(v, list0, alphabet))
        /\ (alphabet = <<1, -1>> /\ Len(history) >= 6) =>
               SubSeq(history, 1, 6) =
                   << <<>>, <<1>>, <<-1>>, <<1, 1>>, <<1, -1>>, <<-1, 1>> >>

C3_Witness ==
    /\ pc = "shortLexSuccessor"
    /\ alphabet = standardAlphabet(2)
    /\ Len(list0) = 3
    /\ isAllLastLetter(history[Len(history) - 1], alphabet)
    /\ Words(Range(alphabet), 2) \subseteq Range(history)

OdoAlphabets ==
    {<<1>>, <<0, 1>>, standardAlphabet(1), <<1, -1, 2>>, standardAlphabet(2)}

\* n is the length L of the words; the start is L copies of alphabet[0].
InitOdo ==
    /\ alphabet \in OdoAlphabets
    /\ n \in 0..MaxOdoLen
    /\ list0 = [i \in 1..n |-> at(alphabet, 0)]
    /\ history = <<list0>>
    /\ list1 = <<>>
    /\ list2 = <<>>
    /\ k = 0
    /\ pc = "odometerSuccessor"
    /\ result = <<>>

\* One turn of the loop; the model stops once the odometer has rolled over.
CallOdometerSuccessor ==
    /\ pc = "odometerSuccessor"
    /\ ~(Len(history) > 1 /\ list0 = history[1])
    /\ list0' = odometerSuccessor(list0, alphabet)
    /\ history' = Append(history, list0')
    /\ UNCHANGED <<alphabet, list1, list2, k, n, pc, result>>

NextOdo == CallOdometerSuccessor

SpecOdo == InitOdo /\ [][NextOdo]_vars

RECURSIVE Pow(_, _)
Pow(b, e) == IF e = 0 THEN 1 ELSE b * Pow(b, e - 1)

(***************************************************************************)
(* C4: iterating odometerSuccessor from L copies of alphabet[0] visits     *)
(* each of the |alphabet|^L words of length L exactly once, in increasing  *)
(* lexicographic order by alphabet index; the application after L copies   *)
(* of alphabet[-1] returns the starting word; every result has length L.   *)
(***************************************************************************)
C4_OdometerCycle ==
    pc = "odometerSuccessor" =>
        LET total == Pow(Len(alphabet), n)
            visited == SubSeq(history, 1, Min(Len(history), total))
        IN  /\ \A i \in 1..Len(history) : Len(history[i]) = n
            /\ last(history) = list0
            /\ Len(history) <= total + 1
            /\ NoDuplicates(visited)
            /\ \A i \in 1..(Len(visited) - 1) :
                   ShortLexLess(visited[i], visited[i + 1], alphabet)
            /\ \A i \in 1..(Len(history) - 1) :
                   isAllLastLetter(history[i], alphabet) <=> i = total
            /\ Len(history) = total + 1 =>
                   /\ list0 = history[1]
                   /\ Range(visited) = [1..n -> Range(alphabet)]

C4_Witness ==
    /\ pc = "odometerSuccessor"
    /\ alphabet = standardAlphabet(2)
    /\ n = 3
    /\ Len(history) = 65
    /\ history[64] = <<-2, -2, -2>>
    /\ list0 = <<1, 1, 1>>

(***************************************************************************)
(* The partition and presentation driver: main() lines 362-375 call        *)
(* nondecreasingPartitionsStartingWith(k, n), nondecreasingPartitions(n); *)
(* stupidEnumeratePresentations(k, n) takes the same two numbers.          *)
(***************************************************************************)
InitEnum ==
    /\ k \in 0..MaxGenerators
    /\ n \in 0..MaxTotal
    /\ alphabet = <<>>
    /\ list0 = <<>>
    /\ list1 = <<>>
    /\ list2 = <<>>
    /\ pc = "start"
    /\ result = <<>>
    /\ history = <<>>

\* Called on positive k and n only, as the function assumes (with k = 0 < n it
\* would call itself with the same arguments).
CallNondecreasingPartitionsStartingWith ==
    /\ pc = "start"
    /\ k >= 1
    /\ n >= 1
    /\ result' = nondecreasingPartitionsStartingWith(k, n)
    /\ pc' = "nondecreasingPartitionsStartingWith"
    /\ UNCHANGED <<alphabet, list0, list1, list2, k, n, history>>

CallNondecreasingPartitions ==
    /\ pc = "start"
    /\ result' = nondecreasingPartitions(n)
    /\ pc' = "nondecreasingPartitions"
    /\ UNCHANGED <<alphabet, list0, list1, list2, k, n, history>>

CallStupidEnumeratePresentations ==
    /\ pc = "start"
    /\ result' = stupidEnumeratePresentations(k, n)
    /\ pc' = "stupidEnumeratePresentations"
    /\ UNCHANGED <<alphabet, list0, list1, list2, k, n, history>>

NextEnum ==
    \/ CallNondecreasingPartitionsStartingWith
    \/ CallNondecreasingPartitions
    \/ CallStupidEnumeratePresentations

SpecEnum == InitEnum /\ [][NextEnum]_vars

RECURSIVE Sum(_)
Sum(s) == IF s = <<>> THEN 0 ELSE Head(s) + Sum(Tail(s))

\* Every non-decreasing sequence of positive integers that sums to total.
NondecreasingSums(total) ==
    {s \in UNION {[1..m -> 1..total] : m \in 1..total} :
        /\ \A i \in 1..(Len(s) - 1) : s[i] <= s[i + 1]
        /\ Sum(s) = total}

(***************************************************************************)
(* C7: for every positive n, nondecreasingPartitions(n) returns every      *)
(* non-decreasing sequence of positive integers that sums to n, each       *)
(* exactly once, and nothing else; for n = 5 it is [1,1,1,1,1], [1,1,1,2], *)
(* [1,1,3], [1,2,2], [1,4], [2,3], [5] in that order.                      *)
(***************************************************************************)
C7_NondecreasingPartitions ==
    (pc = "nondecreasingPartitions" /\ n >= 1) =>
        /\ Range(result) = NondecreasingSums(n)
        /\ NoDuplicates(result)
        /\ n = 5 =>
               result = << <<1, 1, 1, 1, 1>>, <<1, 1, 1, 2>>, <<1, 1, 3>>,
                           <<1, 2, 2>>, <<1, 4>>, <<2, 3>>, <<5>> >>

C7_Witness ==
    /\ pc = "nondecreasingPartitions"
    /\ n = 5
    /\ Len(result) = 7
    /\ result[4] = <<1, 2, 2>>

\* The word w cut into consecutive pieces of the lengths in partition.
RECURSIVE Split(_, _)
Split(w, partition) ==
    IF partition = <<>> THEN <<>>
    ELSE <<SubSeq(w, 1, Head(partition))>>
             \o Split(SubSeq(w, Head(partition) + 1, Len(w)), Tail(partition))

RECURSIVE TotalLength(_)
TotalLength(relations) ==
    IF relations = <<>> THEN 0 ELSE Len(Head(relations)) + TotalLength(Tail(relations))

(***************************************************************************)
(* C5: stupidEnumeratePresentations(k, n) returns a list of presentations, *)
(* each with k generators and relations whose lengths sum to n, holding,   *)
(* for each non-decreasing partition of n, every word of length n over the *)
(* k-generator alphabet split into relations according to that partition.  *)
(***************************************************************************)
C5_StupidEnumeratePresentations ==
    pc = "stupidEnumeratePresentations" =>
        /\ result # None
        /\ \A i \in 1..Len(result) :
               /\ result[i].generators = standardAlphabet(k)
               /\ TotalLength(result[i].relations) = n
        /\ \A partition \in Range(nondecreasingPartitions(n)) :
               \A w \in [1..n -> Range(standardAlphabet(k))] :
                   [generators |-> standardAlphabet(k),
                    relations |-> Split(w, partition)] \in Range(result)

====
